---- MODULE Spec2Model ----
(***************************************************************************)
(* A model of the configuration protocol of agent/kwami_agent.py: the      *)
(* KwamiConfig held by a KwamiAgent, the data-message handler that merges   *)
(* inbound JSON messages into it, the prompt compiled from the persona and  *)
(* the instruction push to the session.                                     *)
(*                                                                          *)
(* Python values are tagged records [t, v]; a str is one atomic token, a    *)
(* compiled prompt is a sequence of tokens (NL is the newline character).   *)
(* A Python call that may raise is an operator returning [exc, ...] with    *)
(* exc = "none" when it returns normally.                                   *)
(***************************************************************************)
EXTENDS Integers, Sequences, FiniteSets, TLC

\* Number of data messages the room delivers in one behaviour.
MaxMsgs == 2

-----------------------------------------------------------------------------
(* Python / JSON values *)

Str(s)  == [t |-> "str",  v |-> s]
Num(n)  == [t |-> "int",  v |-> n]
\* a float, held in tenths: Flt(8) is 0.8
Flt(n)  == [t |-> "flt",  v |-> n]
Bool(b) == [t |-> "bool", v |-> b]
List(l) == [t |-> "list", v |-> l]
Obj(o)  == [t |-> "obj",  v |-> o]
Null    == [t |-> "null", v |-> 0]

NoKeys == [k \in {} |-> Null]
NL == "\n"

\* bool(v)
Truthy(v) ==
  CASE v.t = "str"  -> v.v # ""
    [] v.t = "list" -> Len(v.v) > 0
    [] v.t = "obj"  -> DOMAIN v.v # {}
    [] v.t = "int"  -> v.v # 0
    [] v.t = "flt"  -> v.v # 0
    [] v.t = "bool" -> v.v
    [] OTHER        -> FALSE

\* a in b for two str tokens; the tokens of this model are chosen so that
\* none is a proper substring of another
IsSubstring(a, b) == a = "" \/ a = b

\* key in c
In(key, c) ==
  CASE c.t = "obj"  -> [exc |-> "none", val |-> key \in DOMAIN c.v]
    [] c.t = "list" -> [exc |-> "none", val |-> \E i \in 1..Len(c.v) : c.v[i] = Str(key)]
    [] c.t = "str"  -> [exc |-> "none", val |-> IsSubstring(key, c.v)]
    [] OTHER        -> [exc |-> "TypeError", val |-> FALSE]

\* c[key]
Item(c, key) ==
  IF c.t = "obj"
  THEN IF key \in DOMAIN c.v
       THEN [exc |-> "none", val |-> c.v[key]]
       ELSE [exc |-> "KeyError", val |-> Null]
  ELSE [exc |-> "TypeError", val |-> Null]

\* c.get(key, default)
Get(c, key, default) ==
  IF c.t = "obj"
  THEN [exc |-> "none", val |-> IF key \in DOMAIN c.v THEN c.v[key] ELSE default]
  ELSE [exc |-> "AttributeError", val |-> Null]

\* len(c)
PyLen(c) ==
  CASE c.t = "list" -> [exc |-> "none", val |-> Len(c.v)]
    [] c.t = "obj"  -> [exc |-> "none", val |-> Cardinality(DOMAIN c.v)]
    [] c.t = "str"  -> [exc |-> "none", val |-> IF c.v = "" THEN 0 ELSE 1]
    [] OTHER        -> [exc |-> "TypeError", val |-> 0]

RECURSIVE SetToSeq(_)
SetToSeq(S) ==
  IF S = {} THEN <<>>
  ELSE LET x == CHOOSE y \in S : TRUE IN <<x>> \o SetToSeq(S \ {x})

\* sep.join(parts) over token sequences
RECURSIVE JoinWith(_, _)
JoinWith(sep, parts) ==
  IF Len(parts) = 0 THEN <<>>
  ELSE IF Len(parts) = 1 THEN parts[1]
  ELSE parts[1] \o sep \o JoinWith(sep, Tail(parts))

Tok(s) == IF s = "" THEN <<>> ELSE <<s>>

\* repr(v) and str(v), as token sequences
RECURSIVE Repr(_)
Repr(v) ==
  CASE v.t = "str"  -> <<"'">> \o Tok(v.v) \o <<"'">>
    [] v.t = "int"  -> <<ToString(v.v)>>
    [] v.t = "flt"  -> <<ToString(v.v \div 10), ".", ToString(v.v % 10)>>
    [] v.t = "bool" -> IF v.v THEN <<"True">> ELSE <<"False">>
    [] v.t = "null" -> <<"None">>
    [] v.t = "list" -> <<"[">> \o JoinWith(<<", ">>, [i \in 1..Len(v.v) |-> Repr(v.v[i])]) \o <<"]">>
    [] OTHER        -> LET ks == SetToSeq(DOMAIN v.v)
                       IN <<"{">> \o JoinWith(<<", ">>,
                               [i \in 1..Len(ks) |-> <<"'", ks[i], "': ">> \o Repr(v.v[ks[i]])])
                             \o <<"}">>

\* f"{v}"
Format(v) == IF v.t = "str" THEN Tok(v.v) ELSE Repr(v)

-----------------------------------------------------------------------------
(* Configuration types *)

KwamiPersonaConfig ==
  [name               |-> Str("Kwami"),
   personality        |-> Str("A friendly and helpful AI companion"),
   system_prompt      |-> Str(""),
   traits             |-> List(<<>>),
   language           |-> Str("en"),
   conversation_style |-> Str("friendly"),
   response_length    |-> Str("medium"),
   emotional_tone     |-> Str("warm")]

KwamiVoiceConfig ==
  [stt_provider            |-> Str("deepgram"),
   stt_model               |-> Str("nova-2"),
   stt_language            |-> Str("en"),
   llm_provider            |-> Str("openai"),
   llm_model               |-> Str("gpt-4o"),
   llm_temperature         |-> Flt(8),
   tts_provider            |-> Str("cartesia"),
   tts_voice               |-> Str("79a125e8-cd45-4c13-8a67-188112f4dd22"),
   tts_model               |-> Str("sonic"),
   tts_speed               |-> Flt(10),
   vad_provider            |-> Str("silero"),
   vad_threshold           |-> Flt(5),
   vad_min_speech_duration |-> Flt(1),
   vad_min_silence_duration |-> Flt(3),
   noise_cancellation      |-> Bool(TRUE),
   turn_detection          |-> Str("server_vad"),
   pipeline_type           |-> Str("voice")]

KwamiConfig ==
  [kwami_id   |-> Str(""),
   kwami_name |-> Str("Kwami"),
   persona    |-> KwamiPersonaConfig,
   voice      |-> KwamiVoiceConfig,
   tools      |-> List(<<>>)]

PersonaFields == DOMAIN KwamiPersonaConfig
VoiceFields   == DOMAIN KwamiVoiceConfig

-----------------------------------------------------------------------------
(* _build_system_prompt *)

length_guide ==
  [short  |-> "Keep responses brief and concise (1-2 sentences).",
   medium |-> "Provide balanced responses with enough detail (2-4 sentences).",
   long   |-> "Give comprehensive, detailed responses when appropriate."]

tone_guide ==
  [neutral      |-> "Maintain a balanced, objective tone.",
   warm         |-> "Express warmth and friendliness in your interactions.",
   enthusiastic |-> "Show enthusiasm and energy in your responses.",
   calm         |-> "Maintain a calm, soothing demeanor."]

\* key in guide: raises for an unhashable key
InGuide(key, guide) ==
  CASE key.t \in {"list", "obj"} -> [exc |-> "TypeError", val |-> FALSE]
    [] key.t = "str"             -> [exc |-> "none", val |-> key.v \in DOMAIN guide]
    [] OTHER                     -> [exc |-> "none", val |-> FALSE]

\* ', '.join(traits): the str items of a list, the keys of a dict, the
\* characters of a str (a token of this model that is used as traits is one
\* character long)
JoinTraits(traits) ==
  CASE traits.t = "list" ->
         IF \A i \in 1..Len(traits.v) : traits.v[i].t = "str"
         THEN [exc |-> "none",
               val |-> JoinWith(<<", ">>, [i \in 1..Len(traits.v) |-> Tok(traits.v[i].v)])]
         ELSE [exc |-> "TypeError", val |-> <<>>]
    [] traits.t = "str" -> [exc |-> "none", val |-> Tok(traits.v)]
    [] traits.t = "obj" ->
         LET ks == SetToSeq(DOMAIN traits.v)
         IN [exc |-> "none", val |-> JoinWith(<<", ">>, [i \in 1..Len(ks) |-> Tok(ks[i])])]
    [] OTHER -> [exc |-> "TypeError", val |-> <<>>]

\* PromptParts with the conversation-style block written before the traits
\* block
PromptPartsStyleFirst(persona) ==
  LET opening == IF Truthy(persona.system_prompt)
                 THEN IF persona.system_prompt.t = "str"
                      THEN <<Tok(persona.system_prompt.v)>>
                      ELSE <<Repr(persona.system_prompt)>>
                 ELSE << <<"You are ">> \o Format(persona.name) \o <<", ">>
                           \o Format(persona.personality) \o <<".">> >>
      traits  == IF Truthy(persona.traits)
                 THEN << <<NL, "Key traits: ">> \o JoinTraits(persona.traits).val >>
                 ELSE <<>>
      style   == IF Truthy(persona.conversation_style)
                 THEN << <<NL, "Conversation style: ">> \o Format(persona.conversation_style) >>
                 ELSE <<>>
      length  == IF InGuide(persona.response_length, length_guide).val
                 THEN << <<NL, length_guide[persona.response_length.v]>> >>
                 ELSE <<>>
      tone    == IF InGuide(persona.emotional_tone, tone_guide).val
                 THEN << <<NL, tone_guide[persona.emotional_tone.v]>> >>
                 ELSE <<>>
  IN opening \o style \o traits \o length \o tone

\* the list prompt_parts, each part a token sequence
PromptParts(persona) ==
  LET opening == IF Truthy(persona.system_prompt)
                 THEN IF persona.system_prompt.t = "str"
                      THEN <<Tok(persona.system_prompt.v)>>
                      ELSE <<Repr(persona.system_prompt)>>
                 ELSE << <<"You are ">> \o Format(persona.name) \o <<", ">>
                           \o Format(persona.personality) \o <<".">> >>
      traits  == IF Truthy(persona.traits)
                 THEN << <<NL, "Key traits: ">> \o JoinTraits(persona.traits).val >>
                 ELSE <<>>
      style   == IF Truthy(persona.conversation_style)
                 THEN << <<NL, "Conversation style: ">> \o Format(persona.conversation_style) >>
                 ELSE <<>>
      length  == IF InGuide(persona.response_length, length_guide).val
                 THEN << <<NL, length_guide[persona.response_length.v]>> >>
                 ELSE <<>>
      tone    == IF InGuide(persona.emotional_tone, tone_guide).val
                 THEN << <<NL, tone_guide[persona.emotional_tone.v]>> >>
                 ELSE <<>>
  IN opening \o traits \o style \o length \o tone

\* the first exception _build_system_prompt raises for this persona
PromptError(persona) ==
  IF Truthy(persona.traits) /\ JoinTraits(persona.traits).exc # "none"
    THEN JoinTraits(persona.traits).exc
  ELSE IF InGuide(persona.response_length, length_guide).exc # "none"
    THEN InGuide(persona.response_length, length_guide).exc
  ELSE IF InGuide(persona.emotional_tone, tone_guide).exc # "none"
    THEN InGuide(persona.emotional_tone, tone_guide).exc
  ELSE IF Truthy(persona.system_prompt) /\ persona.system_prompt.t # "str"
    THEN "TypeError"
  ELSE "none"

_build_system_prompt(persona) ==
  IF PromptError(persona) # "none"
  THEN [exc |-> PromptError(persona), val |-> <<>>]
  ELSE [exc |-> "none", val |-> JoinWith(<<NL>>, PromptParts(persona))]

-----------------------------------------------------------------------------
(* The merge: _update_persona, _update_voice, _update_tools,               *)
(* _apply_full_config.  A merge result is                                  *)
(*   [cfg, exc, set, push, rest, ops]:                                     *)
(* the configuration when control leaves the synchronous run, the          *)
(* exception raised ("none" if none), the fields assigned, the instruction *)
(* string the run is awaiting update_instructions on (<<>> if it is not    *)
(* suspended), the full-config payload whose voice/tools sections are      *)
(* still to be applied after the await (<<>> if none) and the sub-merges   *)
(* entered, in order.                                                      *)

Fld(sec, f) == [sec |-> sec, f |-> f]

\* payload key, dataclass field, key of the nested object read ("" if none)
PersonaKeys ==
  << <<"name", "name", "">>,
     <<"personality", "personality", "">>,
     <<"systemPrompt", "system_prompt", "">>,
     <<"traits", "traits", "">>,
     <<"language", "language", "">>,
     <<"conversationStyle", "conversation_style", "">>,
     <<"responseLength", "response_length", "">>,
     <<"emotionalTone", "emotional_tone", "">> >>

SttKeys == << <<"provider", "stt_provider", "">>, <<"model", "stt_model", "">>,
              <<"language", "stt_language", "">> >>
LlmKeys == << <<"provider", "llm_provider", "">>, <<"model", "llm_model", "">>,
              <<"temperature", "llm_temperature", "">> >>
TtsKeys == << <<"provider", "tts_provider", "">>, <<"voice", "tts_voice", "">>,
              <<"model", "tts_model", "">>, <<"speed", "tts_speed", "">> >>
VadKeys == << <<"provider", "vad_provider", "">>, <<"threshold", "vad_threshold", "">> >>
EnhKeys == << <<"noiseCancellation", "noise_cancellation", "enabled">>,
              <<"turnDetection", "turn_detection", "mode">> >>

VoiceSections ==
  << <<"stt", SttKeys>>, <<"llm", LlmKeys>>, <<"tts", TtsKeys>>,
     <<"vad", VadKeys>>, <<"enhancements", EnhKeys>> >>

\* AssignFields written with payload.get("<key>"): an absent key assigns None
RECURSIVE AssignFieldsGet(_, _, _, _)
AssignFieldsGet(rec, payload, keys, i) ==
  IF i > Len(keys) THEN [rec |-> rec, exc |-> "none", set |-> {}]
  ELSE
    LET f == keys[i][2]
        g == Get(payload, keys[i][1], Null)
        it == IF keys[i][3] = "" \/ g.exc # "none" \/ g.val = Null
              THEN g ELSE Item(g.val, keys[i][3])
    IN IF it.exc # "none" THEN [rec |-> rec, exc |-> it.exc, set |-> {}]
       ELSE LET r == AssignFieldsGet([rec EXCEPT ![f] = it.val], payload, keys, i + 1)
            IN [r EXCEPT !.set = @ \cup {f}]

\* AssignFields written with  if payload.get("<key>"):  an empty value is skipped
RECURSIVE AssignFieldsTruthy(_, _, _, _)
AssignFieldsTruthy(rec, payload, keys, i) ==
  IF i > Len(keys) THEN [rec |-> rec, exc |-> "none", set |-> {}]
  ELSE
    LET f == keys[i][2]
        g == Get(payload, keys[i][1], Null)
        it == IF keys[i][3] = "" \/ g.exc # "none" \/ ~Truthy(g.val)
              THEN g ELSE Item(g.val, keys[i][3])
    IN IF it.exc # "none" THEN [rec |-> rec, exc |-> it.exc, set |-> {}]
       ELSE IF ~Truthy(g.val) THEN AssignFieldsTruthy(rec, payload, keys, i + 1)
       ELSE LET r == AssignFieldsTruthy([rec EXCEPT ![f] = it.val], payload, keys, i + 1)
            IN [r EXCEPT !.set = @ \cup {f}]

\* the chain  if "<key>" in payload: rec.<field> = payload["<key>"]  (or
\* payload["<key>"]["<inner>"]) over keys[i..]; stops at the first raise
RECURSIVE AssignFields(_, _, _, _)
AssignFields(rec, payload, keys, i) ==
  IF i > Len(keys) THEN [rec |-> rec, exc |-> "none", set |-> {}]
  ELSE
    LET k     == keys[i][1]
        f     == keys[i][2]
        inner == keys[i][3]
        has   == In(k, payload)
        outer == Item(payload, k)
        it    == IF inner = "" \/ outer.exc # "none" THEN outer ELSE Item(outer.val, inner)
    IN IF has.exc # "none" THEN [rec |-> rec, exc |-> has.exc, set |-> {}]
       ELSE IF ~has.val THEN AssignFields(rec, payload, keys, i + 1)
       ELSE IF it.exc # "none" THEN [rec |-> rec, exc |-> it.exc, set |-> {}]
       ELSE LET r == AssignFields([rec EXCEPT ![f] = it.val], payload, keys, i + 1)
            IN [r EXCEPT !.set = @ \cup {f}]

Res(cfg, exc, set, push, rest, ops) ==
  [cfg |-> cfg, exc |-> exc, set |-> set, push |-> push, rest |-> rest, ops |-> ops]

\* PersonaCompiled without line 253: the prompt is built and dropped
PersonaCompiledNoPush(cfg, set, b) ==
  Res(cfg, b.exc, set, <<>>, <<>>, <<"persona">>)

\* _update_persona after its assignments (a is their outcome): the prompt is
\* built and the call stops at the await on update_instructions
PersonaCompiled(cfg, set, b) ==
  Res(cfg, b.exc, set, IF b.exc = "none" THEN <<b.val>> ELSE <<>>, <<>>, <<"persona">>)

PersonaAssigned(cfg, a) ==
  IF a.exc # "none"
  THEN Res([cfg EXCEPT !.persona = a.rec], a.exc, {Fld("persona", f) : f \in a.set},
           <<>>, <<>>, <<"persona">>)
  ELSE PersonaCompiled([cfg EXCEPT !.persona = a.rec], {Fld("persona", f) : f \in a.set},
                       _build_system_prompt(a.rec))

\* _update_persona with lines 252-253 moved up, between the assignment of
\* traits and that of language: the prompt is built from a persona that has
\* only the first four keys of the payload
_update_persona_early(cfg, persona_config) ==
  IF AssignFields(cfg.persona, persona_config, PersonaKeys, 1).exc # "none"
  THEN PersonaAssigned(cfg, AssignFields(cfg.persona, persona_config, PersonaKeys, 1))
  ELSE PersonaCompiled(
         [cfg EXCEPT !.persona = AssignFields(cfg.persona, persona_config, PersonaKeys, 1).rec],
         {Fld("persona", f) : f \in AssignFields(cfg.persona, persona_config, PersonaKeys, 1).set},
         _build_system_prompt(
           AssignFields(cfg.persona, persona_config, SubSeq(PersonaKeys, 1, 4), 1).rec))

\* _update_persona up to the await on update_instructions
_update_persona(cfg, persona_config) ==
  PersonaAssigned(cfg, AssignFields(cfg.persona, persona_config, PersonaKeys, 1))

\* the sections of _update_voice from VoiceSections[i] on
RECURSIVE UpdateVoiceSections(_, _, _)
UpdateVoiceSections(voice, voice_config, i) ==
  IF i > Len(VoiceSections) THEN [rec |-> voice, exc |-> "none", set |-> {}]
  ELSE
    LET sec == VoiceSections[i][1]
        has == In(sec, voice_config)
        sub == Item(voice_config, sec)
        Rest(a) == IF a.exc # "none" THEN a
                   ELSE LET Joined(r) == [r EXCEPT !.set = @ \cup a.set]
                        IN Joined(UpdateVoiceSections(a.rec, voice_config, i + 1))
    IN IF has.exc # "none" THEN [rec |-> voice, exc |-> has.exc, set |-> {}]
       ELSE IF ~has.val THEN UpdateVoiceSections(voice, voice_config, i + 1)
       ELSE IF sub.exc # "none" THEN [rec |-> voice, exc |-> sub.exc, set |-> {}]
       ELSE Rest(AssignFields(voice, sub.val, VoiceSections[i][2], 1))

VoiceAssigned(cfg, r) ==
  Res([cfg EXCEPT !.voice = r.rec], r.exc, {Fld("voice", f) : f \in r.set},
      <<>>, <<>>, <<"voice">>)

\* _update_voice written with  voice = KwamiVoiceConfig()
_update_voice_fresh(cfg, voice_config) ==
  VoiceAssigned(cfg, UpdateVoiceSections(KwamiVoiceConfig, voice_config, 1))

_update_voice(cfg, voice_config) ==
  VoiceAssigned(cfg, UpdateVoiceSections(cfg.voice, voice_config, 1))

\* _update_tools written with  self.kwami_config.tools.extend(tools_config)
_update_tools_extend(cfg, tools_config) ==
  Res([cfg EXCEPT !.tools = IF cfg.tools.t = "list" /\ tools_config.t = "list"
                            THEN List(cfg.tools.v \o tools_config.v)
                            ELSE tools_config],
      PyLen(tools_config).exc, {Fld("top", "tools")}, <<>>, <<>>, <<"tools">>)

\* _update_tools written to rebuild and push the instructions after the
\* assignment
_update_tools_push(cfg, tools_config) ==
  Res([cfg EXCEPT !.tools = tools_config], PyLen(tools_config).exc,
      {Fld("top", "tools")},
      IF PyLen(tools_config).exc = "none"
      THEN <<_build_system_prompt(cfg.persona).val>> ELSE <<>>,
      <<>>, <<"tools">>)

\* the assignment, then len(tools_config) in the log line
_update_tools(cfg, tools_config) ==
  Res([cfg EXCEPT !.tools = tools_config], PyLen(tools_config).exc,
      {Fld("top", "tools")}, <<>>, <<>>, <<"tools">>)

\* second was run after first had returned normally
Then(first, second) ==
  [second EXCEPT !.set = first.set \cup @, !.ops = first.ops \o @]

\* the tools section of _apply_full_config
ApplyToolsSection(cfg, config) ==
  IF "tools" \in DOMAIN config.v
  THEN _update_tools(cfg, config.v["tools"])
  ELSE Res(cfg, "none", {}, <<>>, <<>>, <<>>)

\* the tools section, after the voice section ended as v
ToolsAfterVoice(v, config) ==
  IF v.exc # "none" THEN v ELSE Then(v, ApplyToolsSection(v.cfg, config))

\* _apply_full_config from the voice section on
ApplyVoiceAndTools(cfg, config) ==
  IF "voice" \in DOMAIN config.v
  THEN ToolsAfterVoice(_update_voice(cfg, config.v["voice"]), config)
  ELSE ApplyToolsSection(cfg, config)

\* the persona section as p: the voice and tools sections wait for the push
AwaitPersona(p, config) ==
  [p EXCEPT !.rest = IF p.push # <<>> THEN <<config>> ELSE <<>>]

\* _apply_full_config after kwami_id and kwami_name are assigned
ApplySections(cfg, config) ==
  Then(Res(cfg, "none", {Fld("top", "kwami_id"), Fld("top", "kwami_name")},
           <<>>, <<>>, <<"identity">>),
       IF "persona" \in DOMAIN config.v
       THEN AwaitPersona(_update_persona(cfg, config.v["persona"]), config)
       ELSE ApplyVoiceAndTools(cfg, config))

\* _apply_full_config written with  if "kwamiId" in config:  before each of
\* the two assignments
_apply_full_config_keep(cfg, config) ==
  IF Get(config, "kwamiId", Str("unknown")).exc # "none"
  THEN Res(cfg, Get(config, "kwamiId", Str("unknown")).exc, {}, <<>>, <<>>, <<>>)
  ELSE ApplySections([cfg EXCEPT !.kwami_id = Get(config, "kwamiId", cfg.kwami_id).val,
                                 !.kwami_name = Get(config, "kwamiName", cfg.kwami_name).val],
                     config)

_apply_full_config(cfg, config) ==
  IF Get(config, "kwamiId", Str("unknown")).exc # "none"
  THEN Res(cfg, Get(config, "kwamiId", Str("unknown")).exc, {}, <<>>, <<>>, <<>>)
  ELSE ApplySections([cfg EXCEPT !.kwami_id = Get(config, "kwamiId", Str("")).val,
                                 !.kwami_name = Get(config, "kwamiName", Str("Kwami")).val],
                     config)

\* _handle_interrupt written to rebuild and push the instructions again
_handle_interrupt_repush(cfg) ==
  PersonaCompiled(cfg, {}, _build_system_prompt(cfg.persona))

_handle_interrupt(cfg) == Res(cfg, "none", {}, <<>>, <<>>, <<"interrupt">>)

-----------------------------------------------------------------------------
(* _handle_data_message *)

Nothing(cfg, exc) == Res(cfg, exc, {}, <<>>, <<>>, <<>>)

\* data.decode("utf-8") and json.loads
Decode(data) ==
  CASE data.enc = "bad_utf8" -> [exc |-> "UnicodeDecodeError", val |-> Null]
    [] data.enc = "bad_json" -> [exc |-> "JSONDecodeError", val |-> Null]
    [] OTHER                 -> [exc |-> "none", val |-> data.body]

\* DispatchUpdate with a final  else: await self._update_persona(config)
DispatchUpdateElsePersona(cfg, update_type, config) ==
  CASE update_type = Str("voice")   -> _update_voice(cfg, config)
    [] update_type = Str("tools")   -> _update_tools(cfg, config)
    [] update_type = Str("full")    -> _apply_full_config(cfg, config)
    [] OTHER                        -> _update_persona(cfg, config)

\* the if/elif chain on updateType
DispatchUpdate(cfg, update_type, config) ==
  CASE update_type = Str("persona") -> _update_persona(cfg, config)
    [] update_type = Str("voice")   -> _update_voice(cfg, config)
    [] update_type = Str("tools")   -> _update_tools(cfg, config)
    [] update_type = Str("full")    -> _apply_full_config(cfg, config)
    [] OTHER                        -> Nothing(cfg, "none")

\* DispatchType with a final  else: await self._apply_full_config(message)
DispatchTypeElseFull(cfg, message, msg_type) ==
  CASE msg_type = Str("config_update") ->
         DispatchUpdate(cfg, Get(message, "updateType", Null).val,
                        Get(message, "config", Null).val)
    [] msg_type = Str("interrupt") -> _handle_interrupt(cfg)
    [] OTHER -> _apply_full_config(cfg, message)

\* the if/elif chain on type
DispatchType(cfg, message, msg_type) ==
  CASE msg_type = Str("config") -> _apply_full_config(cfg, message)
    [] msg_type = Str("config_update") ->
         DispatchUpdate(cfg, Get(message, "updateType", Null).val,
                        Get(message, "config", Null).val)
    [] msg_type = Str("interrupt") -> _handle_interrupt(cfg)
    [] OTHER -> Nothing(cfg, "none")

\* msg_type = message.get("type") and the chain on it
Dispatch(cfg, message) ==
  IF Get(message, "type", Null).exc # "none"
  THEN Nothing(cfg, Get(message, "type", Null).exc)
  ELSE DispatchType(cfg, message, Get(message, "type", Null).val)

\* the try block after the decoding ended as d
Decoded(cfg, d) ==
  IF d.exc # "none" THEN Nothing(cfg, d.exc) ELSE Dispatch(cfg, d.val)

\* the body of the try block up to its first suspension
RunHandler(cfg, data) == Decoded(cfg, Decode(data))

\* the exception classes of the interpreter that the handler can meet
BaseOf ==
  [JSONDecodeError    |-> "ValueError",
   UnicodeDecodeError |-> "ValueError",
   ValueError         |-> "Exception",
   TypeError          |-> "Exception",
   KeyError           |-> "LookupError",
   LookupError        |-> "Exception",
   AttributeError     |-> "Exception",
   RuntimeError       |-> "Exception",
   Exception          |-> "BaseException",
   BaseException      |-> "object"]

RECURSIVE IsInstance(_, _)
IsInstance(exc, cls) ==
  exc = cls \/ (exc \in DOMAIN BaseOf /\ IsInstance(BaseOf[exc], cls))

\* the handler with only its first except clause
ExceptClausesJsonOnly == <<"JSONDecodeError">>

\* the except clauses of _handle_data_message
ExceptClauses == <<"JSONDecodeError", "Exception">>

\* how the call of _handle_data_message ends for an exception raised inside
Boundary(exc) ==
  IF exc = "none" \/ \E i \in 1..Len(ExceptClauses) : IsInstance(exc, ExceptClauses[i])
  THEN "returned"
  ELSE "escaped"

-----------------------------------------------------------------------------
(* The data messages the room delivers *)

Json(body) == [enc |-> "json", body |-> body]
BadUtf8    == [enc |-> "bad_utf8", body |-> Null]
BadJson    == [enc |-> "bad_json", body |-> Null]

PersonaAda     == Obj([name |-> Str("Ada"), traits |-> List(<<Str("curious"), Str("precise")>>)])
PersonaTraits  == Obj([traits |-> List(<<Str("bold")>>)])
PersonaEmpties == Obj([systemPrompt |-> Str(""), traits |-> List(<<>>)])
PersonaTerse   == Obj([systemPrompt |-> Str("Be terse."), traits |-> List(<<Str("brief")>>),
                       conversationStyle |-> Str("")])
PersonaEnums   == Obj([responseLength |-> Str("verbose"), emotionalTone |-> Str("calm")])
PersonaTutor   == Obj([personality |-> Str("a patient tutor"), language |-> Str("es"),
                       conversationStyle |-> Str("formal"),
                       responseLength |-> Str("short"), emotionalTone |-> Str("grumpy")])
PersonaBadTraits == Obj([name |-> Str("Bob"), traits |-> Num(5)])
PersonaListEnum  == Obj([responseLength |-> List(<<Str("long")>>)])

\* what the handler can be given as a persona payload: objects, and the
\* shapes a sender can put in their place (None is a missing "config")
PersonaPayloads ==
  {PersonaAda, PersonaTraits, PersonaEmpties, PersonaTerse, PersonaEnums, PersonaTutor,
   PersonaBadTraits, PersonaListEnum, Obj(NoKeys), Null, Str("name"),
   List(<<Str("traits")>>)}

VoiceTts == Obj([tts |-> Obj([provider |-> Str("openai"), voice |-> Str("x")])])
VoiceSttLlm ==
  Obj([stt |-> Obj([provider |-> Str("whisper"), model |-> Str("large"), language |-> Str("es")]),
       llm |-> Obj([model |-> Str("gpt-4o-mini"), temperature |-> Flt(2)])])
VoiceRest ==
  Obj([tts |-> Obj([model |-> Str("sonic-2"), speed |-> Flt(12)]),
       vad |-> Obj([provider |-> Str("webrtc"), threshold |-> Flt(7)]),
       enhancements |-> Obj([noiseCancellation |-> Obj([enabled |-> Bool(FALSE)]),
                             turnDetection |-> Obj([mode |-> Str("manual")])])])
VoiceNoEnabled ==
  Obj([llm |-> Obj([provider |-> Str("anthropic")]),
       enhancements |-> Obj([noiseCancellation |-> Obj(NoKeys),
                             turnDetection |-> Obj([mode |-> Str("manual")])])])
VoiceNullStt == Obj([stt |-> Null, llm |-> Obj([model |-> Str("gpt-4o-mini")])])

VoicePayloads ==
  {VoiceTts, VoiceSttLlm, VoiceRest, VoiceNoEnabled, VoiceNullStt, Obj(NoKeys), Null}

ToolSearch == Obj([name |-> Str("search")])
ToolClock  == Obj([name |-> Str("clock")])

ToolsPayloads ==
  {List(<<ToolSearch, ToolClock>>), List(<<ToolClock>>), List(<<>>), Null}

\* full configurations (the keys beside "type")
FullPayloads ==
  {[kwamiId |-> Str("k-1"), kwamiName |-> Str("Nova"), persona |-> PersonaAda,
    tools |-> List(<<ToolSearch, ToolClock>>)],
   [voice |-> VoiceTts],
   [kwamiId |-> Str("k-2"), voice |-> VoiceTts, tools |-> List(<<ToolSearch>>)],
   [kwamiName |-> Str("Zed"), persona |-> PersonaBadTraits, voice |-> VoiceSttLlm],
   [kwamiId |-> Str("k-3"), persona |-> PersonaTraits, voice |-> VoiceNoEnabled,
    tools |-> List(<<ToolClock>>)],
   NoKeys}

ConfigMessages ==
  {Json(Obj([k \in DOMAIN f \cup {"type"} |-> IF k = "type" THEN Str("config") ELSE f[k]]))
     : f \in FullPayloads}

Update(update_type, config) ==
  Json(Obj([type |-> Str("config_update"), updateType |-> Str(update_type), config |-> config]))

\* a config_update without its "config" key
UpdateNoConfig(update_type) ==
  Json(Obj([type |-> Str("config_update"), updateType |-> Str(update_type)]))

PersonaUpdates == {Update("persona", c) : c \in PersonaPayloads \ {Null}}
                    \cup {UpdateNoConfig("persona")}
VoiceUpdates   == {Update("voice", c) : c \in VoicePayloads \ {Null}}
                    \cup {UpdateNoConfig("voice")}
ToolsUpdates   == {Update("tools", c) : c \in ToolsPayloads \ {Null}}
                    \cup {UpdateNoConfig("tools")}
FullUpdates    ==
  {Update("full", Obj(f)) :
     f \in {g \in FullPayloads : "kwamiName" \in DOMAIN g \/ DOMAIN g = {"voice"}}}
    \cup {UpdateNoConfig("full")}

\* config_update whose updateType is missing or unknown
OtherUpdates ==
  {Json(Obj([type |-> Str("config_update"), config |-> PersonaAda])),
   Update("avatar", PersonaAda),
   Json(Obj([type |-> Str("config_update"), updateType |-> List(<<Str("persona")>>),
             config |-> Str("name")]))}

InterruptMessage == Json(Obj([type |-> Str("interrupt")]))

\* not UTF-8, not JSON, JSON that is not an object, no "type", unknown "type"
MalformedMessages ==
  {BadUtf8, BadJson, Json(List(<<Str("config")>>)),
   Json(Obj([config |-> PersonaAda])),
   Json(Obj([type |-> Str("ping"), persona |-> PersonaAda])),
   Json(Obj([type |-> Null, updateType |-> Str("persona"), config |-> PersonaAda]))}

Messages ==
  ConfigMessages \cup PersonaUpdates \cup VoiceUpdates \cup ToolsUpdates \cup FullUpdates
    \cup OtherUpdates \cup {InterruptMessage} \cup MalformedMessages

-----------------------------------------------------------------------------
(* The agent *)

VARIABLES
  kwami_config,   \* self.kwami_config
  instructions,   \* the instructions in effect at the session
  handlers,       \* calls of _handle_data_message suspended in update_instructions
  delivered,      \* number of data_received events so far
  pushes,         \* the calls of update_instructions so far, in call order
  log,            \* per delivered message: the message, how its handler stands
                  \* (status, exception logged, sub-merges entered), whether it ran
                  \* with no other handler suspended, and what it left when it ended
  written,        \* per field: the latest-arriving message that assigned it, and the value
  ev              \* the last step taken

vars == <<kwami_config, instructions, handlers, delivered, pushes, log, written, ev>>

AllFields ==
  {Fld("top", f) : f \in {"kwami_id", "kwami_name", "tools"}}
    \cup {Fld("persona", f) : f \in PersonaFields}
    \cup {Fld("voice", f) : f \in VoiceFields}

FieldValue(cfg, fld) ==
  CASE fld.sec = "persona" -> cfg.persona[fld.f]
    [] fld.sec = "voice"   -> cfg.voice[fld.f]
    [] OTHER               -> cfg[fld.f]

\* the fields in set were assigned by the handler of message seq
Record(w, set, seq, cfg) ==
  [fld \in AllFields |->
     IF fld \in set /\ seq >= w[fld].seq
     THEN [seq |-> seq, val |-> FieldValue(cfg, fld)]
     ELSE w[fld]]

\* what a handler leaves behind when its call ends
After(cfg, instr) == [cfg |-> cfg, instr |-> instr]

\* KwamiAgent(KwamiConfig()) as kwami_session creates it
Init ==
  /\ kwami_config = KwamiConfig
  /\ instructions = _build_system_prompt(KwamiConfig.persona).val
  /\ handlers = {}
  /\ delivered = 0
  /\ pushes = <<>>
  /\ log = <<>>
  /\ written = [fld \in AllFields |-> [seq |-> 0, val |-> FieldValue(KwamiConfig, fld)]]
  /\ ev = [op |-> "init", seq |-> 0]

\* the state after the handler of message seq ran, with outcome out, from its
\* start to its first await on update_instructions or to its end
Started(data, seq, out) ==
  /\ delivered' = seq
  /\ kwami_config' = out.cfg
  /\ written' = Record(written, out.set, seq, out.cfg)
  /\ handlers' = IF out.push # <<>>
                 THEN handlers \cup {[seq |-> seq, instr |-> out.push[1],
                                      rest |-> out.rest]}
                 ELSE handlers
  /\ pushes' = IF out.push # <<>>
               THEN Append(pushes, [seq |-> seq, instr |-> out.push[1]])
               ELSE pushes
  /\ log' = Append([i \in 1..Len(log) |->
                      IF \E h \in handlers : h.seq = i
                      THEN [log[i] EXCEPT !.alone = FALSE]
                      ELSE log[i]],
                   [msg |-> data,
                    status |-> IF out.push # <<>> THEN "running" ELSE Boundary(out.exc),
                    exc |-> out.exc,
                    ops |-> out.ops,
                    alone |-> handlers = {},
                    after |-> IF out.push # <<>> THEN <<>>
                              ELSE <<After(out.cfg, instructions)>>])
  /\ ev' = [op |-> "handle", seq |-> seq]
  /\ UNCHANGED instructions

\* a data_received event: _handle_data_message is called with data
HandleDataMessage(data) ==
  /\ delivered < MaxMsgs
  /\ Started(data, delivered + 1, RunHandler(kwami_config, data))

\* the state after the handler h resumed and ran to its end with outcome out
Resumed(h, out) ==
  /\ kwami_config' = out.cfg
  /\ written' = Record(written, out.set, h.seq, out.cfg)
  /\ log' = [log EXCEPT ![h.seq] =
               [@ EXCEPT !.status = Boundary(out.exc), !.exc = out.exc,
                         !.ops = @ \o out.ops,
                         !.after = <<After(out.cfg, h.instr)>>]]
  /\ handlers' = handlers \ {h}
  /\ instructions' = h.instr
  /\ ev' = [op |-> "return", seq |-> h.seq]
  /\ UNCHANGED <<delivered, pushes>>

\* update_instructions returns, the session has taken the instructions into
\* effect: the rest of _update_persona, then the rest of _apply_full_config
\* if the persona was a section of a full configuration
UpdateInstructionsReturn(h) ==
  /\ h \in handlers
  /\ \E out \in {IF h.rest = <<>>
                  THEN Nothing(kwami_config, "none")
                  ELSE ApplyVoiceAndTools(kwami_config, h.rest[1])} :
       Resumed(h, out)

\* UpdateInstructionsRaise for an _update_persona that calls
\* update_instructions in a loop until it returns: the exception is swallowed
\* and the handler waits for the next attempt
UpdateInstructionsRaiseRetry(h) ==
  /\ h \in handlers
  /\ \E applied \in {instructions, h.instr} : instructions' = applied
  /\ ev' = [op |-> "raise", seq |-> h.seq]
  /\ UNCHANGED <<kwami_config, handlers, delivered, pushes, log, written>>

\* update_instructions raises, before or after the session took the
\* instructions into effect: the exception leaves _update_persona and is met
\* by the except clauses of _handle_data_message
UpdateInstructionsRaise(h) ==
  /\ h \in handlers
  /\ \E applied \in {instructions, h.instr} :
       /\ instructions' = applied
       /\ log' = [log EXCEPT ![h.seq] =
                    [@ EXCEPT !.status = Boundary("RuntimeError"), !.exc = "RuntimeError",
                              !.after = <<After(kwami_config, applied)>>]]
  /\ handlers' = handlers \ {h}
  /\ ev' = [op |-> "raise", seq |-> h.seq]
  /\ UNCHANGED <<kwami_config, delivered, pushes, written>>

Next ==
  \/ \E data \in Messages : HandleDataMessage(data)
  \/ \E h \in handlers : UpdateInstructionsReturn(h)
  \/ \E h \in handlers : UpdateInstructionsRaise(h)

Spec == Init /\ [][Next]_vars

-----------------------------------------------------------------------------
(* Reading the history *)

HasType(m, ty) ==
  m.enc = "json" /\ m.body.t = "obj" /\ "type" \in DOMAIN m.body.v
    /\ m.body.v["type"] = Str(ty)

IsUpdateOf(m, update_type) ==
  HasType(m, "config_update") /\ "updateType" \in DOMAIN m.body.v
    /\ m.body.v["updateType"] = Str(update_type)

\* message.get("config")
ConfigOf(m) == IF "config" \in DOMAIN m.body.v THEN m.body.v["config"] ELSE Null

HasKey(payload, key) == payload.t = "obj" /\ key \in DOMAIN payload.v

\* the message whose handler took the last step
Actor == log[ev.seq].msg
Handled(n, m) == ev = [op |-> "handle", seq |-> n] /\ log[n].msg = m

-----------------------------------------------------------------------------
(* C1 *)

\* C1: in every step of the handler of a config_update/persona message, each
\* persona field whose key is absent from the payload keeps its value, and
\* kwami_id, kwami_name, every voice field and the tool list are unchanged.
C1_PartialMergeNonDestructive ==
  [][LET m == log'[ev'.seq].msg
     IN IsUpdateOf(m, "persona") =>
          /\ \A i \in 1..Len(PersonaKeys) :
               ~HasKey(ConfigOf(m), PersonaKeys[i][1]) =>
                 kwami_config'.persona[PersonaKeys[i][2]]
                   = kwami_config.persona[PersonaKeys[i][2]]
          /\ kwami_config'.kwami_id = kwami_config.kwami_id
          /\ kwami_config'.kwami_name = kwami_config.kwami_name
          /\ kwami_config'.voice = kwami_config.voice
          /\ kwami_config'.tools = kwami_config.tools]_vars

\* a traits-only update has been merged into a persona, a voice section and a
\* tool list that earlier messages had changed
C1_Witness ==
  /\ Handled(2, Update("persona", PersonaTraits))
  /\ log[1].msg \in ConfigMessages
  /\ kwami_config.persona.traits = List(<<Str("bold")>>)
  /\ kwami_config.persona.name = Str("Ada")
  /\ kwami_config.kwami_id = Str("k-1")
  /\ kwami_config.tools = List(<<ToolSearch, ToolClock>>)

-----------------------------------------------------------------------------
(* C2 *)

-----------------------------------------------------------------------------
(* C3 *)

\* the payloads C3 is about
IsMalformed(m) ==
  \/ m.enc # "json"
  \/ m.body.t # "obj"
  \/ "type" \notin DOMAIN m.body.v
  \/ m.body.v["type"] \notin {Str("config"), Str("config_update"), Str("interrupt")}

\* C3: handling a payload that is not UTF-8, not JSON, has no type or has an
\* unknown type changes no field of the configuration and not the
\* instructions in effect, and calls update_instructions not at all.
C3_MalformedIsolation ==
  [][(ev'.op = "handle" /\ IsMalformed(log'[ev'.seq].msg)) =>
       /\ kwami_config' = kwami_config
       /\ instructions' = instructions
       /\ pushes' = pushes
       /\ handlers' = handlers]_vars

\* a message of unknown type that carries a persona has been handled after a
\* message that changed the configuration
C3_Witness ==
  /\ Handled(2, Json(Obj([type |-> Str("ping"), persona |-> PersonaAda])))
  /\ kwami_config.persona.name = Str("Kwami")
  /\ kwami_config.voice.tts_provider = Str("openai")
  /\ log[2].status = "returned"

-----------------------------------------------------------------------------
(* C4 *)

\* C4: no call of _handle_data_message ends with an exception leaving it,
\* whatever the message and also when update_instructions raises; while
\* messages remain the agent takes the next one.
C4_NoErrorCrossesBoundary ==
  /\ \A i \in 1..Len(log) : log[i].status \in {"running", "returned"}
  /\ delivered < MaxMsgs => ENABLED (\E data \in Messages : HandleDataMessage(data))

\* a push that raised and a section of the wrong shape have both been logged,
\* the second message handled after the first failed
C4_Witness ==
  /\ Len(log) = 2
  /\ log[1].exc = "RuntimeError" /\ log[1].status = "returned"
  /\ log[2].exc = "KeyError" /\ log[2].status = "returned"
  /\ log[2].alone

-----------------------------------------------------------------------------
(* C5 *)

\* C5: the handling of a message ends before the handling of the next one
\* starts to merge: a handler enters a merge only when no other handler is
\* suspended, and no state has two handlers part-way through their messages.
C5_SingleMergeAtATime ==
  /\ Cardinality(handlers) <= 1
  /\ (ev.op = "handle" /\ log[ev.seq].ops # <<>>) => \A h \in handlers : h.seq = ev.seq

-----------------------------------------------------------------------------
(* C6 *)

\* C6: once every delivered message has been handled, each field of the
\* configuration holds the value assigned by the last-arriving message that
\* assigned it.
C6_LastWriteWins ==
  handlers = {} =>
    \A fld \in AllFields : FieldValue(kwami_config, fld) = written[fld].val

-----------------------------------------------------------------------------
(* C7 *)

\* C7: whenever no message is being handled and the persona compiles, the
\* instructions in effect are the prompt compiled from the current persona.
C7_InstructionsMatchPersona ==
  (handlers = {} /\ _build_system_prompt(kwami_config.persona).exc = "none") =>
    instructions = _build_system_prompt(kwami_config.persona).val

-----------------------------------------------------------------------------
(* C8 *)

IsFullMsg(m) == HasType(m, "config") \/ IsUpdateOf(m, "full")

\* the dict _apply_full_config is given
FullPayloadOf(m) == IF HasType(m, "config") THEN m.body ELSE ConfigOf(m)

\* messages i and i+1 are the same full configuration, each handled from
\* start to end with no other handler under way
TwiceInARow(i) ==
  /\ i + 1 <= Len(log)
  /\ IsFullMsg(log[i].msg)
  /\ log[i + 1].msg = log[i].msg
  /\ log[i].alone /\ log[i + 1].alone
  /\ log[i].after # <<>> /\ log[i + 1].after # <<>>

-----------------------------------------------------------------------------
(* C9 *)

\* a full configuration whose only section is voice, with only tts.provider
\* and tts.voice
IsTtsOnly(config) ==
  /\ config.t = "obj"
  /\ DOMAIN config.v \cap {"persona", "voice", "tools"} = {"voice"}
  /\ config.v["voice"].t = "obj"
  /\ DOMAIN config.v["voice"].v = {"tts"}
  /\ config.v["voice"].v["tts"].t = "obj"
  /\ DOMAIN config.v["voice"].v["tts"].v = {"provider", "voice"}

\* C9: handling such a full configuration sets tts_provider and tts_voice to
\* the payload's values and leaves every other voice field, the persona and
\* the tool list as they were.
C9_FullConfigMergesOnlyWhatItCarries ==
  [][(ev'.op = "handle" /\ IsFullMsg(log'[ev'.seq].msg)
        /\ IsTtsOnly(FullPayloadOf(log'[ev'.seq].msg))) =>
       LET tts == FullPayloadOf(log'[ev'.seq].msg).v["voice"].v["tts"].v
       IN /\ kwami_config'.voice.tts_provider = tts["provider"]
          /\ kwami_config'.voice.tts_voice = tts["voice"]
          /\ \A f \in VoiceFields \ {"tts_provider", "tts_voice"} :
               kwami_config'.voice[f] = kwami_config.voice[f]
          /\ kwami_config'.persona = kwami_config.persona
          /\ kwami_config'.tools = kwami_config.tools
          /\ log'[ev'.seq].status = "returned" /\ log'[ev'.seq].exc = "none"]_vars

\* scenario B on a voice section an earlier update had changed
C9_Witness ==
  /\ Handled(2, Json(Obj([type |-> Str("config"), voice |-> VoiceTts])))
  /\ log[1].msg = Update("voice", VoiceRest)
  /\ kwami_config.voice.tts_provider = Str("openai")
  /\ kwami_config.voice.tts_voice = Str("x")
  /\ kwami_config.voice.tts_model = Str("sonic-2")
  /\ kwami_config.voice.vad_provider = Str("webrtc")
  /\ kwami_config.voice.noise_cancellation = Bool(FALSE)

-----------------------------------------------------------------------------
(* C10 *)

\* the sub-merges _apply_full_config enters for this payload when none of
\* them raises
SectionsOf(config) ==
  <<"identity">>
    \o (IF "persona" \in DOMAIN config.v THEN <<"persona">> ELSE <<>>)
    \o (IF "voice" \in DOMAIN config.v THEN <<"voice">> ELSE <<>>)
    \o (IF "tools" \in DOMAIN config.v THEN <<"tools">> ELSE <<>>)

IsPrefix(a, b) == Len(a) <= Len(b) /\ SubSeq(b, 1, Len(a)) = a

IdentityReset(config) ==
  /\ kwami_config.kwami_id
       = (IF HasKey(config, "kwamiId") THEN config.v["kwamiId"] ELSE Str(""))
  /\ kwami_config.kwami_name
       = (IF HasKey(config, "kwamiName") THEN config.v["kwamiName"] ELSE Str("Kwami"))

\* C10 as stated: right after the handler of a config message or of a
\* config_update/full ran (to its end or to its await), kwami_id and
\* kwami_name are the payload's values or "" and "Kwami".
C10_IdentityResetAlways ==
  (ev.op = "handle" /\ IsFullMsg(Actor)) => IdentityReset(FullPayloadOf(Actor))

\* C10 amended: the same when the payload is a JSON object; the identity is
\* assigned first (it is in place when the handler waits in, or has failed
\* in, a sub-merge), the sub-merges entered are identity, persona, voice,
\* tools in this order, each only if its key is present, and all of the
\* present ones when nothing raises.
C10_IdentityResetFirst ==
  /\ (ev.op = "handle" /\ IsFullMsg(Actor) /\ FullPayloadOf(Actor).t = "obj") =>
       /\ IdentityReset(FullPayloadOf(Actor))
       /\ log[ev.seq].ops # <<>> /\ log[ev.seq].ops[1] = "identity"
  /\ \A i \in 1..Len(log) :
       (IsFullMsg(log[i].msg) /\ FullPayloadOf(log[i].msg).t = "obj") =>
         /\ IsPrefix(log[i].ops, SectionsOf(FullPayloadOf(log[i].msg)))
         /\ (log[i].status = "returned" /\ log[i].exc = "none") =>
              log[i].ops = SectionsOf(FullPayloadOf(log[i].msg))

\* a config message without kwamiId and kwamiName has reset an identity that
\* an earlier full configuration had set
C10_Witness ==
  /\ Handled(2, Json(Obj([type |-> Str("config")])))
  /\ log[1].after # <<>>
  /\ log[1].after[1].cfg.kwami_id = Str("k-1")
  /\ log[1].after[1].cfg.kwami_name = Str("Nova")
  /\ kwami_config.kwami_id = Str("")
  /\ kwami_config.kwami_name = Str("Kwami")

-----------------------------------------------------------------------------
(* C11 *)

IsConfigMsg(m) == HasType(m, "config") \/ HasType(m, "config_update")

\* the configuration when the handler of message i was called, for a message
\* that was delivered when every earlier handler had ended
ConfigBefore(i) == IF i = 1 THEN KwamiConfig ELSE log[i - 1].after[1].cfg

\* C11: when the handling of a config or config_update message, run with no
\* other handler under way, has ended in a caught error, the configuration is
\* the one the agent held when the message was delivered.
C11_FailureLeavesConfig ==
  \A i \in 1..Len(log) :
    (/\ IsConfigMsg(log[i].msg)
     /\ \A j \in 1..i : log[j].alone
     /\ log[i].after # <<>>
     /\ log[i].exc # "none")
      => log[i].after[1].cfg = ConfigBefore(i)

-----------------------------------------------------------------------------
(* C12 *)

\* C12: the handler of an interrupt message, whenever it runs, changes no
\* field of the configuration and not the instructions in effect, calls
\* update_instructions not at all, and returns without an error.
C12_InterruptMutatesNothing ==
  [][(ev'.op = "handle" /\ HasType(log'[ev'.seq].msg, "interrupt")) =>
       /\ kwami_config' = kwami_config
       /\ instructions' = instructions
       /\ pushes' = pushes
       /\ handlers' = handlers
       /\ log'[ev'.seq].status = "returned" /\ log'[ev'.seq].exc = "none"]_vars

\* an interrupt has been handled while the handler of a persona update was
\* still waiting for its push
C12_Witness ==
  /\ Handled(2, InterruptMessage)
  /\ log[2].ops = <<"interrupt">>
  /\ log[1].msg = Update("persona", PersonaAda)
  /\ handlers # {}
  /\ kwami_config.persona.name = Str("Ada")
  /\ instructions = _build_system_prompt(KwamiPersonaConfig).val

-----------------------------------------------------------------------------
(* Reading a compiled prompt *)

\* prompt.split("\n")
RECURSIVE SplitLines(_)
SplitLines(toks) ==
  IF \A i \in 1..Len(toks) : toks[i] # NL THEN <<toks>>
  ELSE LET k == CHOOSE i \in 1..Len(toks) :
                  toks[i] = NL /\ \A j \in 1..(i - 1) : toks[j] # NL
       IN <<SubSeq(toks, 1, k - 1)>> \o SplitLines(SubSeq(toks, k + 1, Len(toks)))

IsText(l) == l # <<>>

\* the lines of a prompt that hold text
Lines(prompt) == SelectSeq(SplitLines(prompt), IsText)

\* the calls of update_instructions made by the handler of message i
PushesOf(i) == SelectSeq(pushes, LAMBDA p : p.seq = i)

-----------------------------------------------------------------------------
(* C13 *)

\* C13: when a config_update/persona has been handled from start to end with
\* no other handler under way and without error, the persona holds the
\* payload's value for every key sent, its handler called update_instructions
\* exactly once, with the prompt compiled from the merged persona, and these
\* are the instructions in effect; for the payload of scenario A on the
\* default configuration they open with "You are Ada" and have the line
\* "Key traits: curious, precise".
C13_PersonaUpdatePushesOnce ==
  \A i \in 1..Len(log) :
    (/\ IsUpdateOf(log[i].msg, "persona")
     /\ log[i].alone
     /\ log[i].status = "returned" /\ log[i].exc = "none"
     /\ log[i].after # <<>>)
      => LET U == ConfigOf(log[i].msg)
             A == log[i].after[1]
         IN /\ \A k \in 1..Len(PersonaKeys) :
                 HasKey(U, PersonaKeys[k][1]) =>
                   A.cfg.persona[PersonaKeys[k][2]] = U.v[PersonaKeys[k][1]]
            /\ Len(PushesOf(i)) = 1
            /\ PushesOf(i)[1].instr = _build_system_prompt(A.cfg.persona).val
            /\ A.instr = PushesOf(i)[1].instr
            /\ (i = 1 /\ U = PersonaAda) =>
                 /\ SubSeq(A.instr, 1, 2) = <<"You are ", "Ada">>
                 /\ \E n \in 1..Len(Lines(A.instr)) :
                      Lines(A.instr)[n] = <<"Key traits: ", "curious", ", ", "precise">>

\* scenario A has run on the default configuration and its push has returned
C13_Witness ==
  /\ Len(log) = 1
  /\ log[1].msg = Update("persona", PersonaAda)
  /\ log[1].status = "returned" /\ log[1].exc = "none"
  /\ Len(pushes) = 1
  /\ instructions = pushes[1].instr
  /\ kwami_config.persona.name = Str("Ada")
  /\ kwami_config.persona.traits = List(<<Str("curious"), Str("precise")>>)

-----------------------------------------------------------------------------
(* The prompt compiler on its own: an agent is constructed on a given       *)
(* configuration, and its constructor builds the prompt of the persona.     *)

\* the personas the constructor is given: every field of the type the
\* dataclass declares, the two enumerations also with values outside their
\* guides (unknown or empty strings, None, a list)
PromptInputs ==
  [name               : {Str("Kwami"), Str("Ada")},
   personality        : {Str("A friendly and helpful AI companion")},
   system_prompt      : {Str(""), Str("Be terse.")},
   traits             : {List(<<>>), List(<<Str("bold")>>),
                         List(<<Str("curious"), Str("precise")>>)},
   language           : {Str("en")},
   conversation_style : {Str(""), Str("formal")},
   response_length    : {Str("short"), Str("medium"), Str("long"), Str("verbose"),
                         Str(""), Null, List(<<Str("long")>>)},
   emotional_tone     : {Str("neutral"), Str("warm"), Str("enthusiastic"), Str("calm"),
                         Str("grumpy"), List(<<>>)}]

\* KwamiAgent(config) before the body of __init__ has run
CompileInit ==
  /\ kwami_config \in {[KwamiConfig EXCEPT !.persona = p] : p \in PromptInputs}
  /\ instructions = <<>>
  /\ handlers = {}
  /\ delivered = 0
  /\ pushes = <<>>
  /\ log = <<>>
  /\ written = [fld \in AllFields |-> [seq |-> 0, val |-> FieldValue(kwami_config, fld)]]
  /\ ev = [op |-> "new", seq |-> 0]

\* the call of _build_system_prompt in __init__ ended as b
Built(b) ==
  /\ instructions' = b.val
  /\ ev' = [op |-> IF b.exc = "none" THEN "built" ELSE b.exc, seq |-> 0]

\* __init__: instructions = self._build_system_prompt()
BuildSystemPrompt ==
  /\ ev.op = "new"
  /\ Built(_build_system_prompt(kwami_config.persona))
  /\ UNCHANGED <<kwami_config, handlers, delivered, pushes, log, written>>

CompileNext == BuildSystemPrompt

CompileSpec == CompileInit /\ [][CompileNext]_vars

-----------------------------------------------------------------------------
(* C14 *)

\* the traits line: "Key traits: " and the traits in their order, ", "
\* between two of them
TraitsLine(traits) ==
  <<"Key traits: ">>
    \o [n \in 1..(2 * Len(traits) - 1) |->
          IF n % 2 = 1 THEN traits[(n + 1) \div 2].v ELSE ", "]

\* the lines C14 says the prompt of persona p consists of
ExpectedLines(p) ==
  << IF p.system_prompt # Str("")
     THEN <<p.system_prompt.v>>
     ELSE <<"You are ", p.name.v, ", ", p.personality.v, ".">> >>
    \o (IF p.traits # List(<<>>) THEN <<TraitsLine(p.traits.v)>> ELSE <<>>)
    \o (IF p.conversation_style # Str("")
        THEN << <<"Conversation style: ", p.conversation_style.v>> >> ELSE <<>>)
    \o (IF p.response_length \in {Str("short"), Str("medium"), Str("long")}
        THEN << <<length_guide[p.response_length.v]>> >> ELSE <<>>)
    \o (IF p.emotional_tone \in {Str("neutral"), Str("warm"), Str("enthusiastic"), Str("calm")}
        THEN << <<tone_guide[p.emotional_tone.v]>> >> ELSE <<>>)

\* C14: the lines of a compiled prompt are, in this order, the opening (the
\* system-prompt override if it is non-empty, else "You are {name},
\* {personality}."), the traits line if there are traits, the style line if
\* there is a style, the response-length sentence and the emotional-tone
\* sentence of a known value; with an override only the opening differs.
C14_CompositionOrder ==
  ev.op = "built" => Lines(instructions) = ExpectedLines(kwami_config.persona)

\* a prompt with an override and all four further lines has been compiled
C14_Witness ==
  /\ ev.op = "built"
  /\ kwami_config.persona.system_prompt = Str("Be terse.")
  /\ Lines(instructions)
       = << <<"Be terse.">>,
            <<"Key traits: ", "curious", ", ", "precise">>,
            <<"Conversation style: ", "formal">>,
            <<"Keep responses brief and concise (1-2 sentences).">>,
            <<"Maintain a calm, soothing demeanor.">> >>

-----------------------------------------------------------------------------
(* C15 *)

KnownLengths == {Str(k) : k \in DOMAIN length_guide}
KnownTones   == {Str(k) : k \in DOMAIN tone_guide}

\* prompt, a compiled prompt or <<>>, has the text lines of the prompt of
\* persona ref except the line sentence
OmitsOnly(prompt, ref, sentence) ==
  /\ prompt # <<>>
  /\ Lines(prompt[1])
       = SelectSeq(Lines(_build_system_prompt(ref).val), LAMBDA l : l # <<sentence>>)

\* what the handler of message n, a persona update just run up to its push,
\* has done for a persona p whose field f (key k of guide) has no guidance
\* sentence, ref being p with a known value in that field
Tolerated(n, ref, sentence) ==
  _build_system_prompt(ref).exc = "none" =>
    /\ log[n].exc = "none"
    /\ OmitsOnly([i \in 1..Len(PushesOf(n)) |-> PushesOf(n)[i].instr], ref, sentence)

\* C15: when a persona update has stored its payload and the persona's
\* response_length is not short, medium or long, the merge and the
\* compilation have raised nothing and the prompt handed to
\* update_instructions has the lines of the prompt of the same persona with
\* response_length medium, except the response-length sentence; the same for
\* emotional_tone and the emotional-tone sentence.
C15_UnknownEnumTolerated ==
  (ev.op = "handle" /\ IsUpdateOf(Actor, "persona") /\ ConfigOf(Actor).t = "obj") =>
    /\ kwami_config.persona.response_length \notin KnownLengths =>
         Tolerated(ev.seq, [kwami_config.persona EXCEPT !.response_length = Str("medium")],
                   length_guide["medium"])
    /\ kwami_config.persona.emotional_tone \notin KnownTones =>
         Tolerated(ev.seq, [kwami_config.persona EXCEPT !.emotional_tone = Str("warm")],
                   tone_guide["warm"])

-----------------------------------------------------------------------------
(* C16 *)

\* C16: in a compiled prompt every newline stands between two lines of text:
\* the prompt split at its newlines has no empty piece, so two consecutive
\* lines are one newline apart and none comes first or last.
C16_SingleNewlineBetweenLines ==
  ev.op = "built" =>
    \A i \in 1..Len(SplitLines(instructions)) : SplitLines(instructions)[i] # <<>>

-----------------------------------------------------------------------------
(* C17 *)

\* a voice update, a tools update, or a full configuration without a persona
\* section
NoPersonaSection(m) ==
  \/ IsUpdateOf(m, "voice")
  \/ IsUpdateOf(m, "tools")
  \/ IsFullMsg(m) /\ ~HasKey(FullPayloadOf(m), "persona")

HasPersonaSection(m) ==
  \/ IsUpdateOf(m, "persona")
  \/ IsFullMsg(m) /\ HasKey(FullPayloadOf(m), "persona")

\* C17: the handler of a voice update, of a tools update or of a full
\* configuration without a persona section calls update_instructions not at
\* all and leaves the persona and the instructions in effect as they were;
\* update_instructions is called only in a handler step that is applying the
\* persona section of its message.
C17_MinimalSideEffects ==
  [][/\ (ev'.op = "handle" /\ NoPersonaSection(log'[ev'.seq].msg)) =>
          /\ pushes' = pushes
          /\ handlers' = handlers
          /\ instructions' = instructions
          /\ kwami_config'.persona = kwami_config.persona
     /\ pushes' # pushes =>
          /\ ev'.op = "handle"
          /\ HasPersonaSection(log'[ev'.seq].msg)
          /\ \E k \in 1..Len(log'[ev'.seq].ops) : log'[ev'.seq].ops[k] = "persona"
          /\ Len(pushes') = Len(pushes) + 1]_vars

\* a tools update has replaced the tool list after a persona update and its
\* one push
C17_Witness ==
  /\ Handled(2, Update("tools", List(<<ToolClock>>)))
  /\ log[2].exc = "none"
  /\ log[1].msg = Update("persona", PersonaAda)
  /\ log[1].status = "returned"
  /\ Len(pushes) = 1
  /\ kwami_config.tools = List(<<ToolClock>>)
  /\ kwami_config.persona.name = Str("Ada")
  /\ instructions = pushes[1].instr

-----------------------------------------------------------------------------
(* C18 *)

\* the call of update_instructions that the handler of message seq waits in
\* ends: it returns or it raises
PushEnds(seq) ==
  \E h \in handlers :
    h.seq = seq /\ (UpdateInstructionsReturn(h) \/ UpdateInstructionsRaise(h))

\* the agent when every call of update_instructions eventually ends
FairSpec == Spec /\ \A seq \in 1..MaxMsgs : WF_vars(PushEnds(seq))

\* C18: when every instruction push eventually returns or raises, the
\* handling of every delivered message eventually ends with the handler
\* returned, and the agent is left with no handler part-way through a message.
C18_AlwaysReturnsToIdle ==
  /\ \A i \in 1..MaxMsgs : []<>(Len(log) < i \/ log[i].status = "returned")
  /\ []<>(handlers = {})

\* a message whose push raised and a malformed one delivered meanwhile have
\* both been handled to their end
C18_Witness ==
  /\ Len(log) = 2
  /\ log[1].exc = "RuntimeError" /\ log[1].status = "returned"
  /\ ~log[1].alone
  /\ log[2].msg = BadJson /\ log[2].status = "returned"
  /\ handlers = {}

-----------------------------------------------------------------------------
(* C19 *)

\* the persona payload message m hands to _update_persona, if any
PersonaPayloadOf(m) ==
  IF IsUpdateOf(m, "persona") THEN <<ConfigOf(m)>>
  ELSE IF IsFullMsg(m) /\ HasKey(FullPayloadOf(m), "persona")
       THEN <<FullPayloadOf(m).v["persona"]>>
       ELSE <<>>

\* persona p with payload applied completely: every field whose key the
\* payload carries has the payload's value (a payload that is not an object
\* carries none)
AppliedTo(p, payload) ==
  [f \in PersonaFields |->
     LET i == CHOOSE k \in 1..Len(PersonaKeys) : PersonaKeys[k][2] = f
     IN IF HasKey(payload, PersonaKeys[i][1]) THEN payload.v[PersonaKeys[i][1]] ELSE p[f]]

\* the default persona with the persona payloads of messages 1..n applied
\* completely, in arrival order
RECURSIVE PersonaAfter(_)
PersonaAfter(n) ==
  IF n = 0 THEN KwamiPersonaConfig
  ELSE IF PersonaPayloadOf(log[n].msg) = <<>> THEN PersonaAfter(n - 1)
  ELSE AppliedTo(PersonaAfter(n - 1), PersonaPayloadOf(log[n].msg)[1])

\* C19: under any interleaving of handlers, the persona is at every moment
\* the default persona with the persona payloads of all messages delivered so
\* far applied completely and in arrival order, and every string passed to
\* update_instructions is the prompt compiled from the persona so obtained
\* from the messages up to the one whose handler passes it.
C19_NoHalfAppliedPersonaPushed ==
  /\ kwami_config.persona = PersonaAfter(Len(log))
  /\ \A j \in 1..Len(pushes) :
       _build_system_prompt(PersonaAfter(pushes[j].seq))
         = [exc |-> "none", val |-> pushes[j].instr]

\* two persona updates, each assigning several fields, are both waiting for
\* their push
C19_Witness ==
  /\ Len(log) = 2
  /\ log[1].msg = Update("persona", PersonaTutor)
  /\ log[2].msg = Update("persona", PersonaAda)
  /\ Cardinality(handlers) = 2
  /\ Len(pushes) = 2
  /\ pushes[1].instr # pushes[2].instr
  /\ kwami_config.persona.name = Str("Ada")
  /\ kwami_config.persona.conversation_style = Str("formal")

-----------------------------------------------------------------------------
(* C20 *)

\* a config_update that no branch of the chain on updateType takes
IsOtherUpdate(m) ==
  /\ HasType(m, "config_update")
  /\ \/ "updateType" \notin DOMAIN m.body.v
     \/ m.body.v["updateType"] \notin {Str("persona"), Str("voice"), Str("tools"), Str("full")}

\* C20: the handler of a config_update whose updateType is missing or is
\* none of persona, voice, tools, full, whatever its config, changes no field
\* of the configuration and not the instructions in effect, calls
\* update_instructions not at all, enters no merge and returns without an
\* error.
C20_OtherUpdateTypeIsNoOp ==
  [][(ev'.op = "handle" /\ IsOtherUpdate(log'[ev'.seq].msg)) =>
       /\ kwami_config' = kwami_config
       /\ instructions' = instructions
       /\ pushes' = pushes
       /\ handlers' = handlers
       /\ log'[ev'.seq].ops = <<>>
       /\ log'[ev'.seq].status = "returned" /\ log'[ev'.seq].exc = "none"]_vars

\* a config_update of updateType "avatar" carrying a persona has been
\* handled after a persona update of another name
C20_Witness ==
  /\ Handled(2, Update("avatar", PersonaAda))
  /\ log[2].status = "returned" /\ log[2].exc = "none"
  /\ log[1].msg = Update("persona", PersonaBadTraits)
  /\ kwami_config.persona.name = Str("Bob")
  /\ Len(pushes) = 0

====
